---- MODULE Spec2Model ----
(***************************************************************************)
(* The countdown challenge of the-almost-final-countdown: the final        *)
(* TimerChallenge component (setInterval handle in a per-instance ref),    *)
(* its ResultModal, and the host runtime they run on (the interval table   *)
(* of setInterval / clearInterval and the modal <dialog>).                 *)
(*                                                                         *)
(* Times are integers in milliseconds.  The prop targetTime is held as     *)
(* targetTime * 1000, the only form in which the components compute with   *)
(* it.  JavaScript numbers are IEEE-754 doubles: the arithmetic of the     *)
(* score and of toFixed is modelled bit by bit on binary expansions.       *)
(***************************************************************************)
EXTENDS Integers, Sequences, FiniteSets, TLC

(***************************************************************************)
(* Bounds of the model.                                                    *)
(***************************************************************************)
\* setInterval calls the host hands out ids for
MaxTimers == 3
\* ticks of a leaked interval are followed this far below a remaining time of 0
MaxOvershoot == 20

\* clicks on the Start/Stop buttons followed in the timeout-based variants
MaxHistory == 4
\* longest text typed into the input of Player
MaxNameLen == 2
\* clicks on Set Name followed
MaxClicks == 3
\* interval callbacks followed after the unmount of their instance
MaxLateTicks == 2

(***************************************************************************)
(* Program constants.                                                      *)
(***************************************************************************)
\* const millisecondsElapsed = 10
millisecondsElapsed == 10
\* significand of a double
MantissaBits == 53
\* the component instances on the page
NumInstances == 2
Instances == 1..NumInstances
\* targetTime * 1000 of the challenges rendered: 0.02 s, 0.025 s and 2 s
TargetTimes == {20, 25, 2000}
\* targetTime * 1000 of the challenges of a page with several of them
PageTargetTimes == {20, 25}

(***************************************************************************)
(* IEEE-754 double arithmetic on non-negative binary fixed-point numbers   *)
(* [int |-> integer part, frac |-> fraction bits, most significant first]. *)
(***************************************************************************)

\* a function on 1..n as a sequence
Bits(f) == SubSeq(f, 1, Len(f))

\* the number of bits of n
RECURSIVE BitLen(_)
BitLen(n) == IF n = 0 THEN 0 ELSE 1 + BitLen(n \div 2)

\* the number a bit string spells
RECURSIVE BitsToNat(_)
BitsToNat(b) ==
    IF b = <<>> THEN 0 ELSE 2 * BitsToNat(SubSeq(b, 1, Len(b) - 1)) + b[Len(b)]

\* v as w bits
NatToBits(v, w) == Bits([k \in 1..w |-> (v \div 2^(w - k)) % 2])

\* zeros before the first 1 of b
LeadZeros(b) ==
    IF \A k \in 1..Len(b) : b[k] = 0 THEN Len(b)
    ELSE (CHOOSE k \in 1..Len(b) : b[k] = 1 /\ \A j \in 1..(k - 1) : b[j] = 0) - 1

\* 2^k mod den
RECURSIVE Pow2Mod(_, _)
Pow2Mod(k, den) ==
    IF k = 0 THEN 1 % den
    ELSE IF k % 2 = 0 THEN LET h == Pow2Mod(k \div 2, den) IN (h * h) % den
    ELSE (2 * Pow2Mod(k - 1, den)) % den

\* zeros before the first 1 of the binary expansion of rem / den < 1
QuotZeros(rem, den) ==
    IF rem = 0 THEN 0
    ELSE CHOOSE z \in 0..31 : rem * 2^z < den /\ rem * 2^(z + 1) >= den

\* the first n bits of the binary expansion of rem / den < 1
DivBits(rem, den, n) ==
    Bits([k \in 1..n |-> IF 2 * ((rem * Pow2Mod(k - 1, den)) % den) >= den THEN 1 ELSE 0])

\* what the long division of rem by den leaves after n bits
DivRem(rem, den, n) == (rem * Pow2Mod(n, den)) % den

\* b plus one unit in its last place
IncBits(b) ==
    LET zs == {k \in 1..Len(b) : b[k] = 0}
        p  == IF zs = {} THEN 0 ELSE CHOOSE k \in zs : \A j \in zs : j <= k
    IN  [bits  |-> Bits([k \in 1..Len(b) |-> IF k < p THEN b[k] ELSE IF k = p THEN 1 ELSE 0]),
         carry |-> IF p = 0 THEN 1 ELSE 0]

\* the fraction b times m, at most a byte of b at a time: the product's
\* fraction bits and the integer it carries out
RECURSIVE MulBits(_, _)
MulBits(b, m) ==
    IF b = <<>> THEN [bits |-> <<>>, carry |-> 0]
    ELSE LET w == IF Len(b) < 8 THEN Len(b) ELSE 8
             r == MulBits(SubSeq(b, w + 1, Len(b)), m)
             t == BitsToNat(SubSeq(b, 1, w)) * m + r.carry
         IN  [bits |-> NatToBits(t % 2^w, w) \o r.bits, carry |-> t \div 2^w]

\* fraction bits of x that fit a double's significand
KeepBits(x) ==
    IF x.int > 0 THEN MantissaBits - BitLen(x.int)
                 ELSE LeadZeros(x.frac) + MantissaBits

\* x rounded to the nearest double, ties to even; sticky says that x
\* continues with a non-zero bit beyond x.frac
RoundToDouble(x, sticky) ==
    LET keep == KeepBits(x)
    IN  IF Len(x.frac) <= keep THEN x
        ELSE LET head  == SubSeq(x.frac, 1, keep)
                 guard == x.frac[keep + 1]
                 rest  == sticky \/ \E k \in (keep + 2)..Len(x.frac) : x.frac[k] = 1
                 lsb   == IF keep = 0 THEN x.int % 2 ELSE head[keep]
             IN  IF guard = 1 /\ (rest \/ lsb = 1)
                 THEN LET r == IncBits(head)
                      IN  [int |-> x.int + r.carry, frac |-> r.bits]
                 ELSE [int |-> x.int, frac |-> head]

\* quotient bits needed to round num / den: the significand and a guard bit
DivWidth(num, den) ==
    IF num \div den > 0 THEN MantissaBits + 1 - BitLen(num \div den)
                        ELSE QuotZeros(num % den, den) + MantissaBits + 1

\* the double num / den
DoubleDiv(num, den) ==
    LET n == DivWidth(num, den)
    IN  RoundToDouble([int |-> num \div den, frac |-> DivBits(num % den, den, n)],
                      DivRem(num % den, den, n) # 0)

\* the double num / den is not below the exact quotient
DivNotBelow(num, den) ==
    LET kept == DivWidth(num, den) - 1
    IN  \/ DivRem(num % den, den, kept) = 0
        \/ DoubleDiv(num, den) # [int |-> num \div den, frac |-> DivBits(num % den, den, kept)]

\* the complement of b
Invert(b) == Bits([k \in 1..Len(b) |-> 1 - b[k]])

\* the double 1 - q, where negative says that q stands for -q
OneMinus(q, negative) ==
    IF negative THEN RoundToDouble([int |-> q.int + 1, frac |-> q.frac], FALSE)
    ELSE IF q.int >= 1 THEN [int |-> 0, frac |-> <<>>]
    ELSE IF \A k \in 1..Len(q.frac) : q.frac[k] = 0 THEN [int |-> 1, frac |-> <<>>]
    ELSE RoundToDouble([int |-> 0, frac |-> IncBits(Invert(q.frac)).bits], FALSE)

\* the double x * m for a small integer m
DoubleMul(x, m) ==
    LET r == MulBits(x.frac, m)
    IN  RoundToDouble([int |-> x.int * m + r.carry, frac |-> r.bits], FALSE)

\* Math.round(x): the nearest integer, halves up
MathRound(x) == x.int + (IF Len(x.frac) >= 1 /\ x.frac[1] = 1 THEN 1 ELSE 0)

Abs(n) == IF n < 0 THEN -n ELSE n

\* the score on a scale of 1000 in place of 100
ScorePerMille(target, remainingTime) ==
    MathRound(DoubleMul(OneMinus(DoubleDiv(Abs(remainingTime), target),
                                 remainingTime < 0), 1000))

\* const score = Math.round((1 - remainingTime / (targetTime * 1000)) * 100),
\* each operation rounded to a double as the JavaScript engine rounds it.
Score(target, remainingTime) ==
    MathRound(DoubleMul(OneMinus(DoubleDiv(Abs(remainingTime), target),
                                 remainingTime < 0), 100))

\* (remainingTime / 1000).toFixed(2), in hundredths of a second: the integer n
\* nearest to the double remainingTime / 1000 times 100, the larger n on a tie.
ToFixed2(remainingTime) ==
    LET a == Abs(remainingTime)
        n == IF a % 10 > 5 \/ (a % 10 = 5 /\ DivNotBelow(a, 1000)) THEN a \div 10 + 1 ELSE a \div 10
    IN  IF remainingTime < 0 THEN -n ELSE n

(***************************************************************************)
(* State.                                                                  *)
(***************************************************************************)
VARIABLES
    mounted,        \* the TimerChallenge instances rendered on the page
    targetTime,     \* prop targetTime of each instance, times 1000
    timeRemaining,  \* useState(targetTime * 1000)
    timer,          \* timer.current: 0 is undefined, else a setInterval id
    dialogOpen,     \* whether the instance's <dialog> is shown (showModal)
    intervals,      \* host: the live intervals, [id, inst] = whose callback
    nextId,         \* host: the id the next setInterval returns
    lastCmd,        \* the last handler the user invoked on the instance
    stopped,        \* handleStop has run since the instance's last handleStart
    elapsed,        \* ticks of the instance since its last handleStart
    lateTicks,      \* interval callbacks of the instance run after its unmount
    didTimerStart,  \* timeout variants: useState(false)
    isTimerExpired, \* timeout variants: useState(false)
    timeouts,       \* host: the live timeouts, [id, inst] = whose callback
    sharedTimer,    \* module-level variant: let timer, 0 is undefined
    history,        \* timeout variants: the handlers and callbacks run so far
    inputValue,     \* Player: playerName.current.value, the text in the <input>
    enteredPlayerName, \* Player: useState("unknown entity")
    clicks          \* Player: clicks on Set Name so far

\* state of the timeout variants of TimerChallenge
variantVars == <<didTimerStart, isTimerExpired, timeouts, sharedTimer, history>>

\* state of Player
playerVars == <<inputValue, enteredPlayerName, clicks>>

\* what the final TimerChallenge never touches while it is mounted
otherVars == <<lateTicks, variantVars, playerVars>>

vars == <<mounted, targetTime, timeRemaining, timer, dialogOpen, intervals,
          nextId, lastCmd, stopped, elapsed, otherVars>>

\* Strings are sequences of characters.
\* useState("unknown entity")
DefaultName == <<"u", "n", "k", "n", "o", "w", "n", " ", "e", "n", "t", "i", "t", "y">>

\* the live intervals whose callback updates instance i
Live(i) == {t \in intervals : t.inst = i}

\* clearInterval(id): cancelling an unknown or cancelled id does nothing
clearInterval(set, id) == {t \in set : t.id # id}

\* const isTimerActive = timeRemaining > 0 && timeRemaining < targetTime * 1000
isTimerActive(i) == timeRemaining[i] > 0 /\ timeRemaining[i] < targetTime[i]

\* showModal() makes everything outside the dialog inert
PageInert == \E j \in mounted : dialogOpen[j]

\* ResultModal: const didUserLose = remainingTime <= 0
didUserLose(i) == timeRemaining[i] <= 0

\* ResultModal: the score computed at this render
score(i) == Score(targetTime[i], timeRemaining[i])

\* ResultModal: formattedRemainingTime, in hundredths of a second
formattedRemainingTime(i) == ToFixed2(timeRemaining[i])

\* ResultModal: the heading shown, "You lost!" or "Your score: n!"
Heading(i) ==
    IF didUserLose(i) THEN [lost |-> TRUE, score |-> 0]
                      ELSE [lost |-> FALSE, score |-> score(i)]

TypeOK ==
    /\ mounted \subseteq Instances
    /\ targetTime \in [Instances -> TargetTimes]
    /\ timeRemaining \in [Instances -> Int]
    /\ timer \in [Instances -> 0..MaxTimers]
    /\ dialogOpen \in [Instances -> BOOLEAN]
    /\ intervals \subseteq [id : 1..MaxTimers, inst : Instances]
    /\ nextId \in 1..(MaxTimers + 1)
    /\ lastCmd \in [Instances -> {"none", "start", "stop", "reset"}]
    /\ stopped \in [Instances -> BOOLEAN]
    /\ elapsed \in [Instances -> Nat]

\* the state after the first render of the instances in m
InitOf(m) ==
    /\ mounted = m
    /\ targetTime \in [Instances -> TargetTimes]
    /\ \A i \in Instances \ m : targetTime[i] = 20
    /\ timeRemaining = targetTime
    /\ timer = [i \in Instances |-> 0]
    /\ dialogOpen = [i \in Instances |-> FALSE]
    /\ intervals = {}
    /\ nextId = 1
    /\ lastCmd = [i \in Instances |-> "none"]
    /\ stopped = [i \in Instances |-> FALSE]
    /\ elapsed = [i \in Instances |-> 0]
    /\ lateTicks = [i \in Instances |-> 0]
    /\ didTimerStart = [i \in Instances |-> FALSE]
    /\ isTimerExpired = [i \in Instances |-> FALSE]
    /\ timeouts = {}
    /\ sharedTimer = 0
    /\ history = <<>>
    /\ inputValue = <<>>
    /\ enteredPlayerName = DefaultName
    /\ clicks = 0

Init == InitOf({1})

(***************************************************************************)
(* Operations.                                                             *)
(***************************************************************************)
\* handleReset: setTimeRemaining(targetTime * 1000)
handleReset(tr, i) == [tr EXCEPT ![i] = targetTime[i]]

\* handleStart with the handle in a variable shared by all instances
handleStartSharedTimer(i) ==
    /\ i \in mounted
    /\ ~PageInert
    /\ ~isTimerActive(i)
    /\ nextId <= MaxTimers
    /\ timer' = [j \in Instances |-> nextId]
    /\ intervals' = intervals \cup {[id |-> nextId, inst |-> i]}
    /\ nextId' = nextId + 1
    /\ lastCmd' = [lastCmd EXCEPT ![i] = "start"]
    /\ stopped' = [stopped EXCEPT ![i] = FALSE]
    /\ elapsed' = [elapsed EXCEPT ![i] = 0]
    /\ UNCHANGED <<mounted, targetTime, timeRemaining, dialogOpen>>
    /\ UNCHANGED otherVars

\* A click on the button while it is wired to handleStart.
handleStart(i) ==
    /\ i \in mounted
    /\ ~PageInert
    /\ ~isTimerActive(i)
    /\ nextId <= MaxTimers
    /\ timer' = [timer EXCEPT ![i] = nextId]
    /\ intervals' = intervals \cup {[id |-> nextId, inst |-> i]}
    /\ nextId' = nextId + 1
    /\ lastCmd' = [lastCmd EXCEPT ![i] = "start"]
    /\ stopped' = [stopped EXCEPT ![i] = FALSE]
    /\ elapsed' = [elapsed EXCEPT ![i] = 0]
    /\ UNCHANGED <<mounted, targetTime, timeRemaining, dialogOpen>>
    /\ UNCHANGED otherVars

\* handleStop without dialog.current.open()
handleStopWithoutOpen(i) ==
    /\ i \in mounted
    /\ ~PageInert
    /\ isTimerActive(i)
    /\ intervals' = clearInterval(intervals, timer[i])
    /\ lastCmd' = [lastCmd EXCEPT ![i] = "stop"]
    /\ stopped' = [stopped EXCEPT ![i] = TRUE]
    /\ UNCHANGED <<mounted, targetTime, timeRemaining, timer, dialogOpen, nextId,
                   elapsed>>
    /\ UNCHANGED otherVars

\* A click on the button while it is wired to handleStop.
handleStop(i) ==
    /\ i \in mounted
    /\ ~PageInert
    /\ isTimerActive(i)
    /\ intervals' = clearInterval(intervals, timer[i])
    /\ dialogOpen' = [dialogOpen EXCEPT ![i] = TRUE]
    /\ lastCmd' = [lastCmd EXCEPT ![i] = "stop"]
    /\ stopped' = [stopped EXCEPT ![i] = TRUE]
    /\ UNCHANGED <<mounted, targetTime, timeRemaining, timer, nextId, elapsed>>
    /\ UNCHANGED otherVars

\* a tick that takes two tick sizes off the remaining time
TickDouble(t) ==
    LET i == t.inst
        remaining == timeRemaining[i] - 2 * millisecondsElapsed
    IN  /\ t \in intervals
        /\ i \in mounted
        /\ timeRemaining[i] > -MaxOvershoot
        /\ timeRemaining' = [timeRemaining EXCEPT ![i] = remaining]
        /\ intervals' = IF remaining <= 0 THEN clearInterval(intervals, timer[i])
                                          ELSE intervals
        /\ dialogOpen' = IF remaining <= 0 THEN [dialogOpen EXCEPT ![i] = TRUE]
                                           ELSE dialogOpen
        /\ elapsed' = IF lastCmd[i] = "start" THEN [elapsed EXCEPT ![i] = @ + 1]
                                              ELSE elapsed
        /\ UNCHANGED <<mounted, targetTime, timer, nextId, lastCmd, stopped>>
        /\ UNCHANGED otherVars

\* One firing of a live interval: the state update, then the render it causes,
\* which on timeRemaining <= 0 clears timer.current and opens the dialog.
Tick(t) ==
    LET i == t.inst
        remaining == timeRemaining[i] - millisecondsElapsed
    IN  /\ t \in intervals
        /\ i \in mounted
        /\ timeRemaining[i] > -MaxOvershoot
        /\ timeRemaining' = [timeRemaining EXCEPT ![i] = remaining]
        /\ intervals' = IF remaining <= 0 THEN clearInterval(intervals, timer[i])
                                          ELSE intervals
        /\ dialogOpen' = IF remaining <= 0 THEN [dialogOpen EXCEPT ![i] = TRUE]
                                           ELSE dialogOpen
        /\ elapsed' = IF lastCmd[i] = "start" THEN [elapsed EXCEPT ![i] = @ + 1]
                                              ELSE elapsed
        /\ UNCHANGED <<mounted, targetTime, timer, nextId, lastCmd, stopped>>
        /\ UNCHANGED otherVars

\* The CLOSE button: the form's submit event runs onReset, the dialog closes,
\* and its close event runs onReset again.
CloseButton(i) ==
    /\ i \in mounted
    /\ dialogOpen[i]
    /\ timeRemaining' = handleReset(handleReset(timeRemaining, i), i)
    /\ dialogOpen' = [dialogOpen EXCEPT ![i] = FALSE]
    /\ lastCmd' = [lastCmd EXCEPT ![i] = "reset"]
    /\ elapsed' = [elapsed EXCEPT ![i] = 0]
    /\ UNCHANGED <<mounted, targetTime, timer, intervals, nextId, stopped>>
    /\ UNCHANGED otherVars

\* The Escape key: the dialog closes and its close event runs onReset once.
EscapeKey(i) ==
    /\ i \in mounted
    /\ dialogOpen[i]
    /\ timeRemaining' = handleReset(timeRemaining, i)
    /\ dialogOpen' = [dialogOpen EXCEPT ![i] = FALSE]
    /\ lastCmd' = [lastCmd EXCEPT ![i] = "reset"]
    /\ elapsed' = [elapsed EXCEPT ![i] = 0]
    /\ UNCHANGED <<mounted, targetTime, timer, intervals, nextId, stopped>>
    /\ UNCHANGED otherVars

Next ==
    \/ \E i \in Instances : handleStart(i)
    \/ \E i \in Instances : handleStop(i)
    \/ \E t \in intervals : Tick(t)
    \/ \E i \in Instances : CloseButton(i)
    \/ \E i \in Instances : EscapeKey(i)

Spec == Init /\ [][Next]_vars

(***************************************************************************)
(* Properties of the final TimerChallenge.                                 *)
(***************************************************************************)
\* C1: once handleStop has run on an instance, its remaining time is not
\* decremented again until its next handleStart.
C1_NoDecrementAfterStop ==
    [][\A i \in mounted :
          stopped[i] /\ stopped'[i] => timeRemaining'[i] >= timeRemaining[i]]_vars

\* C2: at most one interval scheduled by an instance is live at any time.
C2_AtMostOneLiveInterval ==
    \A i \in mounted : Cardinality(Live(i)) <= 1

\* C3: the button is wired to handleStop (isTimerActive) exactly when the
\* instance has a live countdown, and to handleStart exactly when it has none.
C3_ControlMatchesCountdown ==
    \A i \in mounted : isTimerActive(i) <=> Live(i) # {}

\* C4: a countdown that was started and never stopped ends in the expired
\* outcome: interval cancelled, dialog open on "You lost!", remaining time 0.
C4_ExpiredOutcome ==
    \A i \in mounted :
        lastCmd[i] = "start" /\ timeRemaining[i] <= 0
            => /\ timeRemaining[i] = 0
               /\ dialogOpen[i]
               /\ Heading(i).lost
               /\ Live(i) = {}

\* C5: the remaining time passed to ResultModal is never negative.
C5_RemainingNeverNegative ==
    \A i \in mounted : timeRemaining[i] >= 0

\* n / d rounded to the nearest integer, halves up, in exact arithmetic (n >= 0)
RoundHalfUp(n, d) == (2 * n + d) \div (2 * d)

Distance(a, b) == IF a < b THEN b - a ELSE a - b

\* C6: when handleStop runs after k ticks, 0 < T = 10 k < D, the dialog shows
\* remaining = D - T within one tick and the score round((T / D) * 100).
C6_StopShowsElapsedScore ==
    [][\A i \in mounted :
          LET T == millisecondsElapsed * elapsed[i]
              D == targetTime[i]
          IN  lastCmd[i] = "start" /\ lastCmd'[i] = "stop" /\ 0 < T /\ T < D
                  => /\ dialogOpen'[i]
                     /\ Distance(timeRemaining'[i], D - T) <= millisecondsElapsed
                     /\ Distance(10 * ToFixed2(timeRemaining'[i]), D - T)
                            <= millisecondsElapsed
                     /\ Score(D, timeRemaining'[i]) = RoundHalfUp(100 * T, D)]_vars

\* C7: ResultModal shows "You lost!" exactly when remaining <= 0 and otherwise
\* the score round((1 - remaining / target) * 100).
C7_HeadingIsLostOrRoundedScore ==
    \A i \in mounted :
        Heading(i) =
            IF timeRemaining[i] <= 0
            THEN [lost |-> TRUE, score |-> 0]
            ELSE [lost |-> FALSE,
                  score |-> RoundHalfUp(100 * (targetTime[i] - timeRemaining[i]),
                                        targetTime[i])]

\* what a widget that was just created looks like to every later operation
Fresh(i) ==
    /\ timeRemaining[i] = targetTime[i]
    /\ ~dialogOpen[i]
    /\ Live(i) = {}

\* C8: dismissing the dialog (reset once or twice) leaves the widget at
\* remaining = D and idle, as a freshly created widget.
C8_DismissalRestoresFreshWidget ==
    [][\A i \in mounted : dialogOpen[i] /\ ~dialogOpen'[i] => Fresh(i)']_vars

\* the state of the widget among the four of the state machine
state(i) ==
    IF dialogOpen[i] THEN (IF timeRemaining[i] <= 0 THEN "expired" ELSE "stopped")
    ELSE IF Live(i) # {} THEN "running" ELSE "idle"

Transitions ==
    {<<"idle", "running">>, <<"running", "expired">>, <<"running", "stopped">>,
     <<"expired", "idle">>, <<"stopped", "idle">>}

\* C9: every change of state is idle -> running, running -> expired,
\* running -> stopped or expired | stopped -> idle, and a start (the only
\* assignment to timer.current) happens in idle alone.
C9_OnlySpecifiedTransitions ==
    [][\A i \in mounted :
          /\ state(i)' # state(i) => <<state(i), state(i)'>> \in Transitions
          /\ timer'[i] # timer[i] => state(i) = "idle" /\ state(i)' = "running"]_vars

\* C10: the dialog is open exactly when the widget was stopped (handleStop ran
\* last) or has expired (remaining <= 0), it opens on nothing else, and every
\* dismissal runs the owner's reset.
C10_DialogOpenIffStoppedOrExpired ==
    /\ [](\A i \in mounted :
            dialogOpen[i] <=> (lastCmd[i] = "stop" \/ timeRemaining[i] <= 0))
    /\ [][\A i \in mounted :
            /\ ~dialogOpen[i] /\ dialogOpen'[i]
                   => lastCmd'[i] = "stop" \/ timeRemaining'[i] <= 0
            /\ dialogOpen[i] /\ ~dialogOpen'[i]
                   => lastCmd'[i] = "reset" /\ timeRemaining'[i] = targetTime[i]]_vars

\* a dialog opened by handleStop in the middle of a countdown
C10_Witness ==
    dialogOpen[1] /\ lastCmd[1] = "stop" /\ elapsed[1] > 0 /\ timeRemaining[1] > 0

(***************************************************************************)
(* A page with two final TimerChallenge instances, either of which the     *)
(* parent may stop rendering.  The component registers no cleanup, so an   *)
(* unmount leaves the host's interval table as it is.                      *)
(***************************************************************************)
InitPage ==
    /\ InitOf({1, 2})
    /\ \A i \in Instances : targetTime[i] \in PageTargetTimes

\* React removes the instance from the page: its state, refs and dialog go,
\* and nothing of the component runs.
Unmount(i) ==
    /\ i \in mounted
    /\ mounted' = mounted \ {i}
    /\ UNCHANGED <<targetTime, timeRemaining, timer, dialogOpen, intervals,
                   nextId, lastCmd, stopped, elapsed>>
    /\ UNCHANGED otherVars

\* One firing of a live interval of an unmounted instance: the callback runs
\* and React drops its state update.
LateTick(t) ==
    /\ t \in intervals
    /\ t.inst \notin mounted
    /\ lateTicks[t.inst] < MaxLateTicks
    /\ lateTicks' = [lateTicks EXCEPT ![t.inst] = @ + 1]
    /\ UNCHANGED <<mounted, targetTime, timeRemaining, timer, dialogOpen,
                   intervals, nextId, lastCmd, stopped, elapsed>>
    /\ UNCHANGED <<variantVars, playerVars>>

NextPage ==
    \/ Next
    \/ \E i \in Instances : Unmount(i)
    \/ \E t \in intervals : LateTick(t)

SpecPage == InitPage /\ [][NextPage]_vars

\* what an instance owns: its handle, its intervals, its time, its dialog
Owned(i) == <<timer[i], Live(i), timeRemaining[i], dialogOpen[i]>>

\* C11: with two instances under any interleaving, a step (one operation on
\* one instance) changes the timer handle, the live intervals, the remaining
\* time and the dialog state of at most that one instance.
C11_NoCrossInstanceInterference ==
    [][\A i, j \in Instances :
          i # j /\ Owned(i)' # Owned(i) => Owned(j)' = Owned(j)]_vars

\* instance 1 was stopped while instance 2 goes on counting down
C11_Witness ==
    /\ dialogOpen[1] /\ stopped[1]
    /\ Live(2) # {} /\ elapsed[2] > 0 /\ ~dialogOpen[2]

\* C12: once an instance is unmounted its timer handle is cleared and none of
\* its ticks fire.
C12_UnmountClearsTimer ==
    \A i \in Instances \ mounted : Live(i) = {} /\ lateTicks[i] = 0

\* C15: every step that lowers an instance's remaining time lowers it by
\* exactly the tick size and is the tick of one of its live intervals; every
\* step that raises it is a reset, run from the open dialog (so after a stop
\* or an expiry), and sets it back to the target.
C15_TickSizeAndOnlyResetRaises ==
    [][\A i \in mounted :
          /\ timeRemaining'[i] < timeRemaining[i] =>
                /\ timeRemaining'[i] = timeRemaining[i] - millisecondsElapsed
                /\ Live(i) # {}
          /\ timeRemaining'[i] > timeRemaining[i] =>
                /\ dialogOpen[i] /\ ~dialogOpen'[i]
                /\ lastCmd'[i] = "reset"
                /\ timeRemaining'[i] = targetTime[i]]_vars

\* a started countdown has ticked at least twice and is still running
C15_Witness ==
    /\ lastCmd[1] = "start" /\ elapsed[1] >= 2
    /\ timeRemaining[1] = targetTime[1] - 2 * millisecondsElapsed
    /\ timeRemaining[1] > 0

\* C19: whenever the dialog's heading is a numeric score (remaining > 0), the
\* score is an integer from 0 to 100.
C19_ScoreWithinPercentRange ==
    \A i \in mounted : ~didUserLose(i) => score(i) \in 0..100

\* the dialog is open after a stop and shows a score strictly inside the range
C19_Witness ==
    /\ dialogOpen[1] /\ stopped[1] /\ ~didUserLose(1)
    /\ score(1) \in 1..99

(***************************************************************************)
(* Player: an uncontrolled text input read through a ref, and the name     *)
(* shown in the heading.                                                   *)
(***************************************************************************)
\* the keys pressed in the input
Chars == {"a", "b"}

\* a JavaScript value that is no string: null or undefined
Null == <<"null">>

\* v ?? d: d when v is null or undefined, v otherwise
NullishCoalesce(v, d) == IF v = Null THEN d ELSE v

\* v ? v : d: d when v is falsy (null, undefined or the empty string)
Ternary(v, d) == IF v = Null \/ v = <<>> THEN d ELSE v

\* <h2>Welcome {enteredPlayerName ?? "unknown entity"}</h2>
DisplayedName == NullishCoalesce(enteredPlayerName, DefaultName)

InitPlayer == InitOf({})

timerVars == <<mounted, targetTime, timeRemaining, timer, dialogOpen, intervals,
               nextId, lastCmd, stopped, elapsed, lateTicks, variantVars>>

\* a keystroke that also stores the text as the name
TypeCharReactive(c) ==
    /\ Len(inputValue) < MaxNameLen
    /\ inputValue' = Append(inputValue, c)
    /\ enteredPlayerName' = inputValue'
    /\ UNCHANGED <<clicks, timerVars>>

\* A key typed in the input: the browser appends it to the element's value;
\* the input has no onChange.
TypeChar(c) ==
    /\ Len(inputValue) < MaxNameLen
    /\ inputValue' = Append(inputValue, c)
    /\ UNCHANGED <<enteredPlayerName, clicks, timerVars>>

\* Backspace in the input
Backspace ==
    /\ inputValue # <<>>
    /\ inputValue' = SubSeq(inputValue, 1, Len(inputValue) - 1)
    /\ UNCHANGED <<enteredPlayerName, clicks, timerVars>>

\* handleClick that leaves the text in the input
handleClickKeepInput ==
    /\ clicks < MaxClicks
    /\ enteredPlayerName' = inputValue
    /\ clicks' = clicks + 1
    /\ UNCHANGED <<inputValue, timerVars>>

\* Set Name: setEnteredPlayerName(playerName.current.value);
\* playerName.current.value = ""
handleClick ==
    /\ clicks < MaxClicks
    /\ enteredPlayerName' = inputValue
    /\ inputValue' = <<>>
    /\ clicks' = clicks + 1
    /\ UNCHANGED timerVars

NextPlayer ==
    \/ \E c \in Chars : TypeChar(c)
    \/ Backspace
    \/ handleClick

SpecPlayer == InitPlayer /\ [][NextPlayer]_vars

C14_TypingLeavesNameUnchanged ==
    /\ [](clicks = 0 => DisplayedName = DefaultName)
    /\ [][clicks' = clicks => DisplayedName' = DisplayedName]_vars

\* text was typed after a submission and the submitted name is still shown
C14_Witness ==
    /\ clicks = 1 /\ Len(inputValue) = 2
    /\ DisplayedName = <<"a">> /\ inputValue[1] = "b"

\* C18: for every entered name the heading's ?? expression shows what the
\* ternary enteredPlayerName ? enteredPlayerName : "unknown entity" shows.
C18_NullishSameAsTernary ==
    NullishCoalesce(enteredPlayerName, DefaultName)
        = Ternary(enteredPlayerName, DefaultName)

(***************************************************************************)
(* The timeout-based variants.  The host keeps timeouts and intervals in   *)
(* one table of ids, so clearTimeout cancels whichever of the two has the  *)
(* id it is given.  A pending timeout fires when its delay has passed: of  *)
(* two pending timeouts the one set earlier with no longer a delay fires   *)
(* first.                                                                  *)
(***************************************************************************)
InitVariant ==
    /\ InitOf({1, 2})
    /\ \A i \in Instances : targetTime[i] \in PageTargetTimes

\* clearTimeout(id) on the table of pending timeouts or of live intervals
clearTimeout(set, id) == {t \in set : t.id # id}

\* the timeout t is the next of the pending ones it cannot overtake
Due(t) ==
    /\ t \in timeouts
    /\ \A u \in timeouts :
          u.id < t.id => targetTime[u.inst] > targetTime[t.inst]

unusedByVariants == <<mounted, targetTime, timeRemaining, stopped, elapsed,
                      lateTicks, playerVars>>

\* handleStart of the useRef variant keeping the timeout's id in timer.current
handleStart_part001_KeepTimeout(i) ==
    /\ i \in mounted
    /\ ~PageInert
    /\ ~didTimerStart[i]
    /\ Len(history) < MaxHistory
    /\ timeouts' = timeouts \cup {[id |-> nextId, inst |-> i]}
    /\ intervals' = intervals \cup {[id |-> nextId + 1, inst |-> i]}
    /\ timer' = [timer EXCEPT ![i] = nextId]
    /\ nextId' = nextId + 2
    /\ didTimerStart' = [didTimerStart EXCEPT ![i] = TRUE]
    /\ lastCmd' = [lastCmd EXCEPT ![i] = "start"]
    /\ history' = Append(history, <<"start", i>>)
    /\ UNCHANGED <<isTimerExpired, dialogOpen, sharedTimer, unusedByVariants>>

\* handleStart of the useRef variant: timer.current = setTimeout(...), then
\* timer.current = setInterval(() => {}, 10), then setDidTimerStart(true)
handleStart_part001(i) ==
    /\ i \in mounted
    /\ ~PageInert
    /\ ~didTimerStart[i]
    /\ Len(history) < MaxHistory
    /\ timeouts' = timeouts \cup {[id |-> nextId, inst |-> i]}
    /\ intervals' = intervals \cup {[id |-> nextId + 1, inst |-> i]}
    /\ timer' = [timer EXCEPT ![i] = nextId + 1]
    /\ nextId' = nextId + 2
    /\ didTimerStart' = [didTimerStart EXCEPT ![i] = TRUE]
    /\ lastCmd' = [lastCmd EXCEPT ![i] = "start"]
    /\ history' = Append(history, <<"start", i>>)
    /\ UNCHANGED <<isTimerExpired, dialogOpen, sharedTimer, unusedByVariants>>

\* handleStop of the useRef variant: clearTimeout(timer.current);
\* setDidTimerStart(false); setIsTimerExpired(false)
handleStop_part001(i) ==
    /\ i \in mounted
    /\ ~PageInert
    /\ didTimerStart[i]
    /\ Len(history) < MaxHistory
    /\ timeouts' = clearTimeout(timeouts, timer[i])
    /\ intervals' = clearTimeout(intervals, timer[i])
    /\ didTimerStart' = [didTimerStart EXCEPT ![i] = FALSE]
    /\ isTimerExpired' = [isTimerExpired EXCEPT ![i] = FALSE]
    /\ lastCmd' = [lastCmd EXCEPT ![i] = "stop"]
    /\ history' = Append(history, <<"stop", i>>)
    /\ UNCHANGED <<timer, nextId, dialogOpen, sharedTimer, unusedByVariants>>

\* The timeout's callback of the useRef variant: setDidTimerStart(false);
\* setIsTimerExpired(true); dialog.current.open()
TimeoutFires_part001(t) ==
    /\ Due(t)
    /\ t.inst \in mounted
    /\ timeouts' = timeouts \ {t}
    /\ didTimerStart' = [didTimerStart EXCEPT ![t.inst] = FALSE]
    /\ isTimerExpired' = [isTimerExpired EXCEPT ![t.inst] = TRUE]
    /\ dialogOpen' = [dialogOpen EXCEPT ![t.inst] = TRUE]
    /\ UNCHANGED <<timer, intervals, nextId, lastCmd, history, sharedTimer,
                   unusedByVariants>>

\* The dialog of the useRef variant is closed (CLOSE or Escape): ResultModal
\* is given no onReset, so nothing else runs.
CloseDialog_part001(i) ==
    /\ i \in mounted
    /\ dialogOpen[i]
    /\ dialogOpen' = [dialogOpen EXCEPT ![i] = FALSE]
    /\ UNCHANGED <<timer, intervals, nextId, lastCmd, history, timeouts,
                   didTimerStart, isTimerExpired, sharedTimer, unusedByVariants>>

NextTimeoutRef ==
    \/ \E i \in Instances : handleStart_part001(i)
    \/ \E i \in Instances : handleStop_part001(i)
    \/ \E t \in timeouts : TimeoutFires_part001(t)
    \/ \E i \in Instances : CloseDialog_part001(i)

SpecTimeoutRef == InitVariant /\ [][NextTimeoutRef]_vars

\* C16: in the useRef variant, while Stop is the last click on an instance
\* the instance is not expired and its dialog is not open.
C16_StopPreventsExpiry ==
    \A i \in mounted :
        lastCmd[i] = "stop" => ~isTimerExpired[i] /\ ~dialogOpen[i]

(***************************************************************************)
(* The first variant: one module-level "let timer" shared by every         *)
(* instance, and a "You lost" paragraph in place of the dialog.            *)
(***************************************************************************)
unusedBySharedTimer == <<timer, intervals, dialogOpen, unusedByVariants>>

\* handleStop of an instance that cancels the timeout this instance set last
handleStop_part000_OwnTimer(i) ==
    /\ i \in mounted
    /\ didTimerStart[i]
    /\ Len(history) < MaxHistory
    /\ timeouts' = {t \in timeouts : t.inst # i}
    /\ didTimerStart' = [didTimerStart EXCEPT ![i] = FALSE]
    /\ isTimerExpired' = [isTimerExpired EXCEPT ![i] = FALSE]
    /\ lastCmd' = [lastCmd EXCEPT ![i] = "stop"]
    /\ history' = Append(history, <<"stop", i>>)
    /\ UNCHANGED <<sharedTimer, nextId, unusedBySharedTimer>>

\* handleStart of the first variant: timer = setTimeout(...);
\* setDidTimerStart(true)
handleStart_part000(i) ==
    /\ i \in mounted
    /\ ~didTimerStart[i]
    /\ Len(history) < MaxHistory
    /\ timeouts' = timeouts \cup {[id |-> nextId, inst |-> i]}
    /\ sharedTimer' = nextId
    /\ nextId' = nextId + 1
    /\ didTimerStart' = [didTimerStart EXCEPT ![i] = TRUE]
    /\ lastCmd' = [lastCmd EXCEPT ![i] = "start"]
    /\ history' = Append(history, <<"start", i>>)
    /\ UNCHANGED <<isTimerExpired, unusedBySharedTimer>>

\* handleStop of the first variant: clearTimeout(timer);
\* setDidTimerStart(false); setIsTimerExpired(false)
handleStop_part000(i) ==
    /\ i \in mounted
    /\ didTimerStart[i]
    /\ Len(history) < MaxHistory
    /\ timeouts' = clearTimeout(timeouts, sharedTimer)
    /\ didTimerStart' = [didTimerStart EXCEPT ![i] = FALSE]
    /\ isTimerExpired' = [isTimerExpired EXCEPT ![i] = FALSE]
    /\ lastCmd' = [lastCmd EXCEPT ![i] = "stop"]
    /\ history' = Append(history, <<"stop", i>>)
    /\ UNCHANGED <<sharedTimer, nextId, unusedBySharedTimer>>

\* The timeout's callback of the first variant: setDidTimerStart(false);
\* setIsTimerExpired(true)
TimeoutFires_part000(t) ==
    /\ Due(t)
    /\ t.inst \in mounted
    /\ timeouts' = timeouts \ {t}
    /\ didTimerStart' = [didTimerStart EXCEPT ![t.inst] = FALSE]
    /\ isTimerExpired' = [isTimerExpired EXCEPT ![t.inst] = TRUE]
    /\ UNCHANGED <<sharedTimer, nextId, lastCmd, history, unusedBySharedTimer>>

NextSharedTimer ==
    \/ \E i \in Instances : handleStart_part000(i)
    \/ \E i \in Instances : handleStop_part000(i)
    \/ \E t \in timeouts : TimeoutFires_part000(t)

\* the host fires every pending timeout once its delay has passed
SpecSharedTimer ==
    /\ InitVariant
    /\ [][NextSharedTimer]_vars
    /\ WF_vars(\E t \in timeouts : TimeoutFires_part000(t))

\* {isTimerExpired && <p>You lost</p>}
ShowsYouLost(i) == isTimerExpired[i]

\* The clicks so far are: Start on a, Start on b, then Stop on both.  A Stop
\* on an instance is possible only while its own timeout has not fired, and
\* the Start on b came while a was active, as a's Stop follows it.
StartedThenBothStopped(a, b) ==
    /\ a # b
    /\ Len(history) = 4
    /\ history[1] = <<"start", a>>
    /\ history[2] = <<"start", b>>
    /\ {history[3], history[4]} = {<<"stop", a>>, <<"stop", b>>}

\* C17: in the first variant, once a was started, then b, and both were
\* stopped, a's timeout (the first set) was not cancelled while b's was:
\* it is pending or has fired and a shows "You lost", and it does fire.
C17_FirstStartedStillLoses ==
    /\ [](\A a, b \in Instances : StartedThenBothStopped(a, b) =>
            /\ [id |-> 2, inst |-> b] \notin timeouts
            /\ ~ShowsYouLost(b)
            /\ ([id |-> 1, inst |-> a] \in timeouts) # ShowsYouLost(a))
    /\ \A a, b \in Instances :
          StartedThenBothStopped(a, b) ~> ShowsYouLost(a)

\* both were stopped and the first started shows "You lost"
C17_Witness ==
    /\ StartedThenBothStopped(1, 2)
    /\ ShowsYouLost(1) /\ ~didTimerStart[1] /\ ~didTimerStart[2]

====
